---- MODULE Spec2Model ----
(***************************************************************************)
(* Model of src/src/handler.js: the five hapi handlers of the bookshelf    *)
(* API over the module-level array `books`.  Every handler runs to         *)
(* completion (single-threaded Node), so each handler is one action.       *)
(***************************************************************************)
EXTENDS Integers, Sequences, FiniteSets, TLC

(***************************************************************************)
(* Bounds of the model.                                                    *)
(***************************************************************************)
\* number of ids the generator hands out to stored records
MaxBooks == 2

(***************************************************************************)
(* JavaScript values.  A value carries its typeof tag; the payload of a    *)
(* string is its sequence of characters.                                   *)
(***************************************************************************)
undefined == [type |-> "undefined", v |-> <<>>]
Str(chars) == [type |-> "string", v |-> chars]
Num(n) == [type |-> "number", v |-> <<n>>]
Bool(b) == [type |-> "boolean", v |-> <<b>>]

NaN == [nan |-> TRUE, n |-> 0]
Finite(n) == [nan |-> FALSE, n |-> n]

\* typeof x === 'undefined'
TypeofUndefined(x) == x.type = "undefined"

\* a > b on the values a payload carries here (numbers and undefined):
\* both operands go through ToNumber, undefined becomes NaN and every
\* comparison with NaN is false
Gt(a, b) == a.type = "number" /\ b.type = "number" /\ a.v[1] > b.v[1]

\* Number(x)
Number(x) ==
  CASE x.type = "number" -> Finite(x.v[1])
    [] x.type = "boolean" -> Finite(IF x.v[1] THEN 1 ELSE 0)
    [] x.type = "undefined" -> NaN
    [] x.type = "string" ->
         IF x.v = <<>> THEN Finite(0)
         ELSE IF x.v = <<"1">> THEN Finite(1)
         ELSE IF x.v = <<"0">> THEN Finite(0)
         ELSE NaN

\* a === b on two results of Number(): NaN is equal to nothing
NumStrictEq(a, b) == ~a.nan /\ ~b.nan /\ a.n = b.n

\* String.prototype.toLowerCase, character by character
LowerChar(c) ==
  CASE c = "D" -> "d"
    [] c = "O" -> "o"
    [] c = "C" -> "c"
    [] OTHER -> c

toLowerCase(s) == [i \in 1..Len(s) |-> LowerChar(s[i])]

\* String.prototype.includes
includes(s, sub) ==
  \E i \in 0..(Len(s) - Len(sub)) :
    \A j \in 1..Len(sub) : s[i + j] = sub[j]

\* x.toLowerCase is callable only on a string; on any other stored value
\* (a number, null, an object) the call throws a TypeError
HasToLowerCase(x) == x.type = "string"

(***************************************************************************)
(* Inputs.                                                                 *)
(***************************************************************************)
\* the fields no handler inspects, with the reading flag: two bundles that
\* differ in every field
ExtrasA ==
  [year |-> Num(2001), author |-> Str(<<"a">>), summary |-> Str(<<"s">>),
   publisher |-> Str(<<"p">>), reading |-> Bool(TRUE)]
ExtrasB ==
  [year |-> undefined, author |-> Str(<<"b">>), summary |-> undefined,
   publisher |-> Str(<<"q">>), reading |-> Bool(FALSE)]

Payload(name, pageCount, readPage, e) ==
  [name |-> name, year |-> e.year, author |-> e.author, summary |-> e.summary,
   publisher |-> e.publisher, pageCount |-> pageCount, readPage |-> readPage,
   reading |-> e.reading]

\* request.payload of addBookHandler and editBookByIdHandler: three payloads
\* that pass validation (a finished book, an unfinished one, one whose name
\* is not a string and whose pageCount is absent) and three that do not
\* (no name, readPage > pageCount, both)
Payloads ==
  {Payload(Str(<<"D", "o">>), Num(2), Num(2), ExtrasA),
   Payload(Str(<<"c">>), Num(2), Num(1), ExtrasB),
   Payload(Num(7), undefined, Num(1), ExtrasA),
   Payload(undefined, Num(2), Num(2), ExtrasB),
   Payload(Str(<<"D", "o">>), Num(1), Num(2), ExtrasB),
   Payload(undefined, Num(1), Num(2), ExtrasA)}

\* request.params.bookId: every id the generator can hand out; each of them
\* is the id of no record before it is handed out and after its record is
\* deleted
BookIds == 1..MaxBooks

\* what new Date() can read.  The handlers only copy a timestamp into a
\* record, so two instants are enough to tell a refreshed timestamp from a
\* kept one
Instants == {0, 1}

\* request.query: query parameters are strings, or absent
NameQueries == {undefined, Str(<<"O">>)}
ReadingQueries == {undefined, Str(<<"1">>)}
FinishedQueries == {undefined, Str(<<"0">>)}
Queries == [name : NameQueries, reading : ReadingQueries, finished : FinishedQueries]

(***************************************************************************)
(* State.                                                                  *)
(***************************************************************************)
VARIABLES
  books,      \* the array exported by ./books
  issued,     \* how many ids nanoid has handed out to stored records
  clock,      \* what new Date() reads
  response    \* the outcome of the last handler call

vars == <<books, issued, clock, response>>

\* h.response({status, message, data}).code(code)
Response(status, code, message, data) ==
  [status |-> status, code |-> code, message |-> message, data |-> data]

NoData == [none |-> TRUE]
NoMessage == ""
\* the handler did not return: a TypeError left it
Thrown == Response("TypeError", 0, NoMessage, NoData)
NoCall == Response("none", 0, NoMessage, NoData)

MsgAddNoName == "Gagal menambahkan buku. Mohon isi nama buku"
MsgAddReadPage == "Gagal menambahkan buku. readPage tidak boleh lebih besar dari pageCount"
MsgAddOk == "Buku berhasil ditambahkan"
MsgAddError == "Buku gagal ditambahkan"
MsgGetNotFound == "Buku tidak ditemukan"
MsgEditNoName == "Gagal memperbarui buku. Mohon isi nama buku"
MsgEditReadPage == "Gagal memperbarui buku. readPage tidak boleh lebih besar dari pageCount"
MsgEditOk == "Buku berhasil diperbarui"
MsgEditNotFound == "Gagal memperbarui buku. Id tidak ditemukan"
MsgDeleteOk == "Buku berhasil dihapus"
MsgDeleteNotFound == "Buku gagal dihapus. Id tidak ditemukan"

(***************************************************************************)
(* Array helpers.                                                          *)
(***************************************************************************)
\* a push that puts the new element in front (Array.prototype.unshift)
push_Unshift(arr, x) == <<x>> \o arr

\* Array.prototype.push
push(arr, x) == Append(arr, x)

\* Array.prototype.findIndex with (book) => book.id === bookId; 1-based, and
\* 0 where JavaScript gives -1
findIndex(arr, bookId) ==
  IF \E i \in 1..Len(arr) : arr[i].id = bookId
  THEN CHOOSE i \in 1..Len(arr) :
         arr[i].id = bookId /\ \A j \in 1..(i - 1) : arr[j].id # bookId
  ELSE 0

\* splice(index) without a delete count: everything from index on goes
splice_NoCount(arr, index) == SubSeq(arr, 1, index - 1)

\* Array.prototype.splice(index, 1), the array it leaves
splice(arr, index) ==
  [i \in 1..(Len(arr) - 1) |-> IF i < index THEN arr[i] ELSE arr[i + 1]]

\* a generator that repeats itself
nanoid_Repeats(n) == 1

\* nanoid(16), given how many ids were handed out so far: a token that was
\* never handed out before
nanoid(n) == n + 1

(***************************************************************************)
(* addBookHandler                                                          *)
(***************************************************************************)
\* finished taken as "pageCount is not above readPage"
newBook_FinishedNotAbove(payload, id, now) ==
  [id |-> id,
   name |-> payload.name,
   year |-> payload.year,
   author |-> payload.author,
   summary |-> payload.summary,
   publisher |-> payload.publisher,
   pageCount |-> payload.pageCount,
   readPage |-> payload.readPage,
   finished |-> Bool(~Gt(payload.pageCount, payload.readPage)),
   reading |-> payload.reading,
   insertedAt |-> now,
   updatedAt |-> now]

newBook(payload, id, now) ==
  [id |-> id,
   name |-> payload.name,
   year |-> payload.year,
   author |-> payload.author,
   summary |-> payload.summary,
   publisher |-> payload.publisher,
   pageCount |-> payload.pageCount,
   readPage |-> payload.readPage,
   finished |-> Bool(payload.pageCount = payload.readPage),
   reading |-> payload.reading,
   insertedAt |-> now,
   updatedAt |-> now]

\* the two checks of addBookHandler in the other order
addValidation_ReadPageFirst(payload) ==
  IF Gt(payload.readPage, payload.pageCount) THEN MsgAddReadPage
  ELSE IF TypeofUndefined(payload.name) THEN MsgAddNoName
  ELSE NoMessage

\* the validation of addBookHandler: the message of the first failing check,
\* NoMessage when the payload passes
addValidation(payload) ==
  IF TypeofUndefined(payload.name) THEN MsgAddNoName
  ELSE IF Gt(payload.readPage, payload.pageCount) THEN MsgAddReadPage
  ELSE NoMessage

\* The id is generated before the validation; on a rejected payload it is
\* dropped with the record, so only the ids of stored records are counted.
\* A payload that passes is stored as long as the generator has ids left.
addBookHandler(payload) ==
  LET id == nanoid(issued)
      failure == addValidation(payload)
      pushed == push(books, newBook(payload, id, clock))
      isSuccess == Len(SelectSeq(pushed, LAMBDA book : book.id = id)) > 0
  IN  IF failure # NoMessage
      THEN /\ response' = Response("fail", 400, failure, NoData)
           /\ UNCHANGED <<books, issued, clock>>
      ELSE /\ issued < MaxBooks
           /\ books' = pushed
           /\ issued' = issued + 1
           /\ response' = IF isSuccess
                          THEN Response("success", 201, MsgAddOk, [bookId |-> id])
                          ELSE Response("error", 500, MsgAddError, NoData)
           /\ UNCHANGED clock

(***************************************************************************)
(* getAllBooksHandler                                                      *)
(***************************************************************************)
\* the callbacks handed to books.filter
nameMatches(book, name) == includes(toLowerCase(book.name.v), toLowerCase(name.v))
readingMatches(book, reading) == NumStrictEq(Number(book.reading), Number(reading))
finishedMatches(book, finished) == NumStrictEq(Number(book.finished), Number(finished))

\* books.filter with the name callback throws as soon as it meets a book
\* whose name has no toLowerCase
nameFilterThrows(arr) == \E i \in 1..Len(arr) : ~HasToLowerCase(arr[i].name)

\* filterBook after the three if statements: each assigns a filter of the
\* whole array, so the last one that runs decides
filterBook(arr, query) ==
  LET afterName ==
        IF ~TypeofUndefined(query.name)
        THEN SelectSeq(arr, LAMBDA book : nameMatches(book, query.name))
        ELSE arr
      afterReading ==
        IF ~TypeofUndefined(query.reading)
        THEN SelectSeq(arr, LAMBDA book : readingMatches(book, query.reading))
        ELSE afterName
  IN  IF ~TypeofUndefined(query.finished)
      THEN SelectSeq(arr, LAMBDA book : finishedMatches(book, query.finished))
      ELSE afterReading

\* filterBook.map to {id, name, publisher}
listBook(arr) ==
  [i \in 1..Len(arr) |->
     [id |-> arr[i].id, name |-> arr[i].name, publisher |-> arr[i].publisher]]

getAllBooksResponse(arr, query) ==
  IF Len(arr) = 0
  THEN Response("success", 200, NoMessage, [books |-> <<>>])
  ELSE IF ~TypeofUndefined(query.name) /\ nameFilterThrows(arr)
  THEN Thrown
  ELSE Response("success", 200, NoMessage, [books |-> listBook(filterBook(arr, query))])

getAllBooksHandler(query) ==
  /\ response' = getAllBooksResponse(books, query)
  /\ UNCHANGED <<books, issued, clock>>

(***************************************************************************)
(* getBookByIdHandler                                                      *)
(***************************************************************************)
getBookByIdResponse(arr, bookId) ==
  LET found == SelectSeq(arr, LAMBDA n : n.id = bookId)
  IN  IF Len(found) > 0
      THEN Response("success", 200, NoMessage, [book |-> found[1]])
      ELSE Response("fail", 404, MsgGetNotFound, NoData)

getBookByIdHandler(bookId) ==
  /\ response' = getBookByIdResponse(books, bookId)
  /\ UNCHANGED <<books, issued, clock>>

(***************************************************************************)
(* editBookByIdHandler                                                     *)
(***************************************************************************)
\* editBookByIdHandler without its readPage check
editValidation_NoReadPageCheck(payload) ==
  IF TypeofUndefined(payload.name) THEN MsgEditNoName
  ELSE NoMessage

\* the validation of editBookByIdHandler: the message of the first failing
\* check, NoMessage when the payload passes
editValidation(payload) ==
  IF TypeofUndefined(payload.name) THEN MsgEditNoName
  ELSE IF Gt(payload.readPage, payload.pageCount) THEN MsgEditReadPage
  ELSE NoMessage

\* an update that also recomputes finished
editedBook_RecomputesFinished(old, payload, now) ==
  [old EXCEPT !.name = payload.name,
              !.year = payload.year,
              !.author = payload.author,
              !.summary = payload.summary,
              !.publisher = payload.publisher,
              !.pageCount = payload.pageCount,
              !.readPage = payload.readPage,
              !.reading = payload.reading,
              !.finished = Bool(payload.pageCount = payload.readPage),
              !.updatedAt = now]

\* {...books[index], name, year, ..., reading, updatedAt}
editedBook(old, payload, now) ==
  [old EXCEPT !.name = payload.name,
              !.year = payload.year,
              !.author = payload.author,
              !.summary = payload.summary,
              !.publisher = payload.publisher,
              !.pageCount = payload.pageCount,
              !.readPage = payload.readPage,
              !.reading = payload.reading,
              !.updatedAt = now]

\* the not-found answer decided before the validation
editResponse_LookupFirst(index, failure) ==
  IF index = 0 THEN Response("fail", 404, MsgEditNotFound, NoData)
  ELSE IF failure # NoMessage THEN Response("fail", 400, failure, NoData)
  ELSE Response("success", 200, MsgEditOk, NoData)

\* the chain of returns of editBookByIdHandler: validation failure, then
\* found, then not found
editResponse(index, failure) ==
  IF failure # NoMessage THEN Response("fail", 400, failure, NoData)
  ELSE IF index # 0 THEN Response("success", 200, MsgEditOk, NoData)
  ELSE Response("fail", 404, MsgEditNotFound, NoData)

editBookByIdHandler(bookId, payload) ==
  LET index == findIndex(books, bookId)
      result == editResponse(index, editValidation(payload))
  IN  /\ response' = result
      /\ books' = IF result.code = 200
                  THEN [books EXCEPT ![index] = editedBook(books[index], payload, clock)]
                  ELSE books
      /\ UNCHANGED <<issued, clock>>

(***************************************************************************)
(* deleteBookByIdHandler                                                   *)
(***************************************************************************)
deleteBookByIdHandler(bookId) ==
  LET index == findIndex(books, bookId)
  IN  /\ UNCHANGED <<issued, clock>>
      /\ IF index # 0
         THEN /\ books' = splice(books, index)
              /\ response' = Response("success", 200, MsgDeleteOk, NoData)
         ELSE /\ response' = Response("fail", 404, MsgDeleteNotFound, NoData)
              /\ UNCHANGED books

(***************************************************************************)
(* Specification.                                                          *)
(***************************************************************************)
Init ==
  /\ books = <<>>
  /\ issued = 0
  /\ clock = 0
  /\ response = NoCall

\* time passes between two requests
Tick ==
  /\ \E later \in Instants : later > clock /\ clock' = later
  /\ UNCHANGED <<books, issued, response>>

Create == \E payload \in Payloads : addBookHandler(payload)

List == \E query \in Queries : getAllBooksHandler(query)

GetById == \E bookId \in BookIds : getBookByIdHandler(bookId)

UpdateById == \E bookId \in BookIds, payload \in Payloads : editBookByIdHandler(bookId, payload)

DeleteById == \E bookId \in BookIds : deleteBookByIdHandler(bookId)

Next ==
  \/ Tick
  \/ Create
  \/ List
  \/ GetById
  \/ UpdateById
  \/ DeleteById

Spec == Init /\ [][Next]_vars

(***************************************************************************)
(* Properties.                                                             *)
(***************************************************************************)
IdsOf(arr) == {arr[i].id : i \in 1..Len(arr)}
HasId(arr, bookId) == \E i \in 1..Len(arr) : arr[i].id = bookId
Rejected(payload) ==
  TypeofUndefined(payload.name) \/ Gt(payload.readPage, payload.pageCount)
IsPrefixOf(a, b) == Len(a) <= Len(b) /\ SubSeq(b, 1, Len(a)) = a

\* C1: no two records of the collection have the same id; UpdateById leaves
\* the id of every position as it was; a Create that stores a record appends
\* exactly one, carrying the id it returns, an id no record had before.
C1_UniqueIds ==
  [][/\ \A i, j \in 1..Len(books') : books'[i].id = books'[j].id => i = j
     /\ UpdateById =>
          /\ Len(books') = Len(books)
          /\ \A i \in 1..Len(books) : books'[i].id = books[i].id
     /\ \A payload \in Payloads :
          (~Rejected(payload) /\ addBookHandler(payload)) =>
            /\ Len(books') = Len(books) + 1
            /\ IsPrefixOf(books, books')
            /\ books'[Len(books')].id = response'.data.bookId
            /\ response'.data.bookId \notin IdsOf(books)]_vars

C1_Witness ==
  /\ Len(books) = 2
  /\ response.message = MsgEditOk

\* C2: no stored record has readPage greater than pageCount.
C2_ReadPageNotAbovePageCount ==
  \A i \in 1..Len(books) : ~Gt(books[i].readPage, books[i].pageCount)

C2_Witness ==
  /\ response.message = MsgEditReadPage
  /\ \E i \in 1..Len(books) : books[i].readPage = Num(1) /\ books[i].pageCount = Num(2)

\* C3: a Create without a name, or with readPage > pageCount, answers fail /
\* 400 and leaves the collection as it was; without a name the answer is the
\* name-required one, whatever the page numbers are.
C3_CreateRejects ==
  [][\A payload \in Payloads :
       (Rejected(payload) /\ addBookHandler(payload)) =>
         /\ response'.status = "fail"
         /\ response'.code = 400
         /\ books' = books
         /\ TypeofUndefined(payload.name) => response'.message = MsgAddNoName]_vars

C3_Witness ==
  /\ response.message = MsgAddNoName
  /\ Len(books) > 0

\* C4: after a Create that succeeds, GetById with the returned id answers 200
\* with a record that carries the supplied fields and the returned id, whose
\* finished is true exactly when pageCount equals readPage, and whose
\* insertedAt equals its updatedAt.
C4_CreateThenGet ==
  [][\A payload \in Payloads :
       (addBookHandler(payload) /\ response'.code = 201) =>
         LET got == getBookByIdResponse(books', response'.data.bookId)
             book == got.data.book
         IN  /\ got.status = "success"
             /\ got.code = 200
             /\ book.id = response'.data.bookId
             /\ book.name = payload.name
             /\ book.year = payload.year
             /\ book.author = payload.author
             /\ book.summary = payload.summary
             /\ book.publisher = payload.publisher
             /\ book.pageCount = payload.pageCount
             /\ book.readPage = payload.readPage
             /\ book.reading = payload.reading
             /\ book.finished \in {Bool(TRUE), Bool(FALSE)}
             /\ (book.finished = Bool(TRUE)) <=> (payload.pageCount = payload.readPage)
             /\ book.insertedAt = book.updatedAt]_vars

C4_Witness ==
  /\ response.code = 201
  /\ Len(books) = 2
  /\ books[1].finished = Bool(TRUE)
  /\ books[2].finished = Bool(FALSE)
  /\ books[2].id = response.data.bookId

\* the filter C5 describes: finished if supplied, else reading if supplied,
\* else name if supplied, else everything
SingleFilter(arr, query) ==
  IF ~TypeofUndefined(query.finished)
  THEN SelectSeq(arr, LAMBDA book : NumStrictEq(Number(book.finished), Number(query.finished)))
  ELSE IF ~TypeofUndefined(query.reading)
  THEN SelectSeq(arr, LAMBDA book : NumStrictEq(Number(book.reading), Number(query.reading)))
  ELSE IF ~TypeofUndefined(query.name)
  THEN SelectSeq(arr, LAMBDA book :
         /\ book.name.type = "string"
         /\ includes(toLowerCase(book.name.v), toLowerCase(query.name.v)))
  ELSE arr

\* C5: List answers with the {id, name, publisher} summaries, in collection
\* order, of the records the single deciding filter selects; a filter that
\* does not decide has no effect on the answer.
C5_ListSingleFilter ==
  \A query \in Queries :
    LET answer == getAllBooksResponse(books, query)
        selected == SingleFilter(books, query)
    IN  /\ answer.status = "success"
        /\ answer.data =
             [books |-> [i \in 1..Len(selected) |->
                           [id |-> selected[i].id, name |-> selected[i].name,
                            publisher |-> selected[i].publisher]]]

\* C6: an UpdateById with an accepted payload and an existing id answers 200,
\* writes the eight supplied fields and the current time as updatedAt into
\* the record with that id, keeps its id, insertedAt and finished, its
\* position, every other record and the length.
C6_UpdateFrame ==
  [][\A bookId \in BookIds, payload \in Payloads :
       (~Rejected(payload) /\ HasId(books, bookId) /\ editBookByIdHandler(bookId, payload)) =>
         /\ response'.status = "success"
         /\ response'.code = 200
         /\ Len(books') = Len(books)
         /\ \A i \in 1..Len(books) :
              IF books[i].id = bookId
              THEN /\ books'[i].name = payload.name
                   /\ books'[i].year = payload.year
                   /\ books'[i].author = payload.author
                   /\ books'[i].summary = payload.summary
                   /\ books'[i].publisher = payload.publisher
                   /\ books'[i].pageCount = payload.pageCount
                   /\ books'[i].readPage = payload.readPage
                   /\ books'[i].reading = payload.reading
                   /\ books'[i].updatedAt = clock
                   /\ books'[i].id = books[i].id
                   /\ books'[i].insertedAt = books[i].insertedAt
                   /\ books'[i].finished = books[i].finished
              ELSE books'[i] = books[i]]_vars

C6_Witness ==
  /\ response.message = MsgEditOk
  /\ Len(books) = 2
  /\ \E i \in 1..Len(books) :
       /\ books[i].updatedAt # books[i].insertedAt
       /\ books[i].finished # Bool(books[i].pageCount = books[i].readPage)

\* C7: an UpdateById that does not succeed changes nothing: a rejected
\* payload answers fail / 400 whether or not the id exists, an accepted
\* payload with an id no record has answers fail / 404.
C7_UpdateFailureFrame ==
  [][\A bookId \in BookIds, payload \in Payloads :
       editBookByIdHandler(bookId, payload) =>
         /\ Rejected(payload) =>
              /\ response'.status = "fail"
              /\ response'.code = 400
              /\ books' = books
         /\ (~Rejected(payload) /\ ~HasId(books, bookId)) =>
              /\ response'.status = "fail"
              /\ response'.code = 404
              /\ books' = books]_vars

C7_Witness ==
  /\ response.message = MsgEditNotFound
  /\ Len(books) > 0
  /\ \E i \in 1..Len(books) : books[i].updatedAt # clock

C9_ListAlwaysSucceeds ==
  \A query \in Queries :
    LET answer == getAllBooksResponse(books, query)
    IN  /\ answer.status = "success"
        /\ answer.code = 200
        /\ books = <<>> => answer.data.books = <<>>

\* C10: a Create whose payload passes both checks answers success / 201 with
\* the generated id and appends one record, the earlier ones unchanged; no
\* Create answers error / 500.
C10_CreateSucceeds ==
  [][\A payload \in Payloads :
       addBookHandler(payload) =>
         /\ response'.code # 500
         /\ response'.status # "error"
         /\ ~Rejected(payload) =>
              /\ response'.status = "success"
              /\ response'.code = 201
              /\ response'.data = [bookId |-> nanoid(issued)]
              /\ Len(books') = Len(books) + 1
              /\ IsPrefixOf(books, books')
              /\ books'[Len(books')].id = response'.data.bookId]_vars

C10_Witness ==
  /\ response.code = 201
  /\ Len(books) = 2
  /\ response.data.bookId = 2

====
